---- MODULE Spec2Model ----
(***************************************************************************)
(* Session lifecycle (login, refresh, logout, user deletion) and invoice   *)
(* numbering of the admin backend, as a state machine over the User,       *)
(* RefreshToken and Invoice tables and the HTTP requests in flight.        *)
(* Each await of a handler is one step; a prisma call is atomic.           *)
(***************************************************************************)
EXTENDS Integers, Sequences, FiniteSets, TLC

\* ---------------------------------------------------------------- bounds
MaxTime == 2         \* clock ticks
MaxRequests == 2     \* auth requests two concurrent workers serve after the start
SeqRequests == 3     \* auth requests a single worker serves after the start
MaxInvoices == 2     \* Invoice rows ever created

\* ------------------------------------------------------- program constants
RefreshTTL == 1      \* 30 days, in clock ticks
AccessTTL == 1       \* '15m', in clock ticks

Procs == {1, 2}                  \* concurrent request workers
Emails == {"a@x", "b@x"}         \* payload.email of a verified identity
GoogleIds == {"g1", "g2"}        \* payload.sub of a verified identity
\* enum Role
VALID_ROLES == {"SUPER_ADMIN", "ADMIN", "SALES", "MARKETING", "USER"}
Variants == {"rotating", "static"}

None == <<>>
Some(x) == <<x>>

\* a well-formed secret that was never issued: a run generates fewer secrets than this
UnknownSecret == MaxRequests + SeqRequests + 2
MissingSecret == 0               \* absent / malformed refreshToken in the body

\* no Authorization: Bearer header
NoAccessToken == [sub |-> 0, role |-> "", email |-> "", exp |-> 0]
\* a bearer token this server's ACCESS_SECRET did not sign
ForgedAccessToken == [sub |-> 1, role |-> "SUPER_ADMIN", email |-> "evil@x", exp |-> MaxTime + 2]

\* a stored string is the pair of an encoding and the secret it was applied to;
\* crypto.createHash('sha256').update(raw).digest('hex'): injective, not the identity
Hash(raw) == <<"sha256", raw>>

VARIABLES
    variant,       \* which auth router the build holds
    now,           \* Date.now()
    users,         \* User table
    nextUid,       \* User rows created so far
    tokens,        \* RefreshToken table
    issued,        \* secrets generated so far
    accessTokens,  \* access tokens handed to clients
    workers,       \* workers that take requests
    quota,         \* auth requests the run serves
    served,        \* auth requests accepted so far
    pc,            \* position of each request
    req,           \* locals and response of each request
    createdRoles,  \* history: roles of the User rows in creation order
    rotations,     \* history: <<old id, new id>> of each rotation
    loginIssued,   \* history: secrets issued by login
    refreshedOK,   \* history: secrets a refresh answered 200 for
    e2eDone,       \* history: login secrets refreshed and then logged out
    owners,        \* history: the user each secret was issued to
    loginDeleted,  \* history: ids of the records a login's deleteMany removed
    invoices,      \* Invoice table
    nextInvoiceId, \* Invoice rows created so far
    today,         \* index of the current calendar day
    ipc,           \* position of each create-invoice request
    ireq,          \* locals and response of each create-invoice request
    inspections,   \* Inspection table
    xpc,           \* position of each create-inspection request
    xreq           \* locals and response of each create-inspection request

authVars == <<variant, workers, quota, owners, loginDeleted, now, users, nextUid, tokens, issued, accessTokens, served, pc, req,
              createdRoles, rotations, loginIssued, refreshedOK, e2eDone>>
invVars == <<invoices, nextInvoiceId, today, ipc, ireq>>
inspVars == <<inspections, xpc, xreq>>
vars == <<authVars, invVars, inspVars>>

\* ------------------------------------------------------------ auth state
BlankReq ==
    [op |-> "none", email |-> "", googleId |-> "", secret |-> MissingSecret, tokenId |-> 0,
     userId |-> 0, role |-> "", status |-> 0, refreshOut |-> MissingSecret,
     access |-> FALSE, revokedAtStart |-> FALSE, e2eAtStart |-> FALSE, cls |-> "",
     at |-> NoAccessToken]

Free(p) == pc[p] \in {"idle", "done", "crashed"}

\* a new request is taken by the first worker that is free
Accepts(p) ==
    /\ served < quota
    /\ p \in workers
    /\ Free(p)
    /\ \A q \in workers : q < p => ~Free(q)

UserById(id) == {u \in users : u.id = id}
UserByEmail(e) == {u \in users : u.email = e}

\* an expiry check that never fires
NeverExpired(t) == FALSE

\* token.expiresAt < new Date()  (rotating)  /  storedToken.expiresAt <= new Date()  (static)
Expired(t) ==
    IF variant = "rotating" THEN t.expiresAt < now ELSE t.expiresAt <= now

\* a lookup that forgets the revokedAt filter
FindFirstIgnoringRevoked(h) == {t \in tokens : t.hashedToken = h}

\* prisma.refreshToken.findFirst({ where: { hashedToken, revokedAt: null } })
FindFirst(h) == {t \in tokens : t.hashedToken = h /\ t.revokedAt = None}

\* signAccess({ sub, role, email }): the claims and the expiry the signature covers
SignAccess(u) == [sub |-> u.id, role |-> u.role, email |-> u.email, exp |-> now + AccessTTL]

\* a token check that also asks the User table
VerifyAccessIfUserExists(at) ==
    at \in accessTokens /\ now < at.exp /\ UserById(at.sub) # {}

\* jwt.verify(token, ACCESS_SECRET): a token this server signed that has not expired
VerifyAccess(at) == at \in accessTokens /\ now < at.exp

\* what is left of a request whose handler threw or was abandoned: no response
Thrown(p) == [BlankReq EXCEPT !.op = req[p].op]

\* a finished request keeps what it was asked and what it answered, not its locals
Answer(r) ==
    [r EXCEPT !.tokenId = 0, !.userId = 0, !.role = "", !.email = "", !.googleId = ""]

\* the empty database, no request yet
FreshStart(w, n) ==
    /\ variant \in Variants
    /\ workers = w
    /\ quota = n
    /\ now = 0
    /\ users = {}
    /\ nextUid = 0
    /\ tokens = {}
    /\ issued = 0
    /\ accessTokens = {}
    /\ served = 0
    /\ pc = [p \in Procs |-> "idle"]
    /\ req = [p \in Procs |-> BlankReq]
    /\ createdRoles = <<>>
    /\ rotations = {}
    /\ loginIssued = {}
    /\ refreshedOK = {}
    /\ e2eDone = {}
    /\ owners = <<>>
    /\ loginDeleted = {}

\* the state the first login leaves when it ran alone on worker 1 at time 0:
\* one SUPER_ADMIN user holding one session
FirstLoginDone(w, n) ==
    /\ variant \in Variants
    /\ workers = w
    /\ quota = n + 1
    /\ now = 0
    /\ users = {[id |-> 1, email |-> "a@x", googleId |-> "g1", role |-> "SUPER_ADMIN"]}
    /\ nextUid = 1
    /\ tokens = {[id |-> 1, userId |-> 1, hashedToken |-> Hash(1),
                  expiresAt |-> RefreshTTL, revokedAt |-> None,
                  replacedByToken |-> None]}
    /\ issued = 1
    /\ accessTokens = {[sub |-> 1, role |-> "SUPER_ADMIN", email |-> "a@x",
                        exp |-> AccessTTL]}
    /\ served = 1
    /\ pc = [p \in Procs |-> IF p = 1 THEN "done" ELSE "idle"]
    /\ req = [p \in Procs |->
                IF p = 1
                THEN [BlankReq EXCEPT !.op = "login", !.status = 200,
                                      !.refreshOut = 1, !.access = TRUE]
                ELSE BlankReq]
    /\ createdRoles = <<"SUPER_ADMIN">>
    /\ rotations = {}
    /\ loginIssued = {1}
    /\ refreshedOK = {}
    /\ e2eDone = {}
    /\ owners = <<1>>
    /\ loginDeleted = {}

AuthInit == FreshStart(Procs, MaxRequests) \/ FirstLoginDone(Procs, MaxRequests)

\* ------------------------------------------------------- POST /auth/google
LoginStart(p, e, g, body) ==
    /\ Accepts(p)
    /\ served' = served + 1
    /\ req' = [req EXCEPT ![p] =
                 CASE body = "malformed" -> [BlankReq EXCEPT !.op = "login", !.status = 400]
                   [] body = "badToken" -> [BlankReq EXCEPT !.op = "login"]
                   [] OTHER -> [BlankReq EXCEPT !.op = "login", !.email = e, !.googleId = g]]
    /\ pc' = [pc EXCEPT ![p] =
                 CASE body = "malformed" -> "done"
                   [] body = "badToken" -> "crashed"
                   [] OTHER -> "login_count"]
    /\ UNCHANGED <<variant, workers, quota, owners, loginDeleted, now, users, nextUid, tokens, issued, accessTokens,
                   createdRoles, rotations, loginIssued, refreshedOK, e2eDone>>
    /\ UNCHANGED <<invVars, inspVars>>

LoginCount(p) ==
    /\ pc[p] = "login_count"
    /\ req' = [req EXCEPT ![p].role =
                 IF Cardinality(users) = 0 THEN "SUPER_ADMIN" ELSE "USER"]
    /\ pc' = [pc EXCEPT ![p] = "login_upsert"]
    /\ UNCHANGED <<variant, workers, quota, owners, loginDeleted, served, now, users, nextUid, tokens, issued, accessTokens,
                   createdRoles, rotations, loginIssued, refreshedOK, e2eDone>>
    /\ UNCHANGED <<invVars, inspVars>>

\* an upsert that also resets the role of an existing user
UpsertResettingRole(u, g, role) == [u EXCEPT !.googleId = g, !.role = role]

\* the update branch of the upsert: update: { googleId, name, image }
UpsertUpdate(u, g, role) == [u EXCEPT !.googleId = g]

\* the unique index User_googleId_key: another user already has this googleId
GoogleIdTaken(g, id) == \E u \in users : u.googleId = g /\ u.id # id

\* prisma.user.upsert({ where: { email }, create: {...}, update: {...} })
LoginUpsert(p) ==
    /\ pc[p] = "login_upsert"
    /\ IF UserByEmail(req[p].email) # {}
       THEN \E u \in UserByEmail(req[p].email) :
              IF GoogleIdTaken(req[p].googleId, u.id)
              THEN \* P2002 on User_googleId_key: the handler throws
                   /\ pc' = [pc EXCEPT ![p] = "crashed"]
                   /\ req' = [req EXCEPT ![p] = Thrown(p)]
                   /\ UNCHANGED <<users, nextUid, createdRoles>>
              ELSE LET v == UpsertUpdate(u, req[p].googleId, req[p].role)
                   IN /\ users' = (users \ {u}) \cup {v}
                      /\ req' = [req EXCEPT ![p].userId = v.id, ![p].role = v.role]
                      /\ pc' = [pc EXCEPT ![p] =
                            IF variant = "rotating" THEN "login_issue" ELSE "login_delmany"]
                      /\ UNCHANGED <<nextUid, createdRoles>>
       ELSE IF GoogleIdTaken(req[p].googleId, 0)
            THEN /\ pc' = [pc EXCEPT ![p] = "crashed"]
                 /\ req' = [req EXCEPT ![p] = Thrown(p)]
                 /\ UNCHANGED <<users, nextUid, createdRoles>>
            ELSE /\ users' = users \cup {[id |-> nextUid + 1, email |-> req[p].email,
                                          googleId |-> req[p].googleId,
                                          role |-> req[p].role]}
                 /\ nextUid' = nextUid + 1
                 /\ createdRoles' = Append(createdRoles, req[p].role)
                 /\ req' = [req EXCEPT ![p].userId = nextUid + 1]
                 /\ pc' = [pc EXCEPT ![p] =
                       IF variant = "rotating" THEN "login_issue" ELSE "login_delmany"]
    /\ UNCHANGED <<variant, workers, quota, owners, loginDeleted, served, now, tokens, issued, accessTokens,
                   rotations, loginIssued, refreshedOK, e2eDone>>
    /\ UNCHANGED <<invVars, inspVars>>

\* prisma.refreshToken.deleteMany({ where: { userId: user.id } })
LoginDeleteMany(p) ==
    /\ pc[p] = "login_delmany"
    /\ tokens' = {t \in tokens : t.userId # req[p].userId}
    /\ loginDeleted' = loginDeleted \cup {t.id : t \in tokens \ tokens'}
    /\ pc' = [pc EXCEPT ![p] = "login_issue"]
    /\ UNCHANGED <<variant, workers, quota, owners, served, now, users, nextUid, issued,
                   accessTokens, req, createdRoles, rotations, loginIssued, refreshedOK,
                   e2eDone>>
    /\ UNCHANGED <<invVars, inspVars>>

\* a record that keeps the secret itself
NewTokenPlain(uid, raw) ==
    [id |-> raw, userId |-> uid, hashedToken |-> <<"plain", raw>>,
     expiresAt |-> now + RefreshTTL, revokedAt |-> None, replacedByToken |-> None]

\* a record whose hash is derived from the user instead of a fresh secret
NewTokenPerUser(uid, raw) ==
    [id |-> raw, userId |-> uid, hashedToken |-> Hash(uid),
     expiresAt |-> now + RefreshTTL, revokedAt |-> None, replacedByToken |-> None]

NewToken(uid, raw) ==
    [id |-> raw, userId |-> uid, hashedToken |-> Hash(raw),
     expiresAt |-> now + RefreshTTL, revokedAt |-> None, replacedByToken |-> None]

LoginIssue(p) ==
    /\ pc[p] = "login_issue"
    /\ IF UserById(req[p].userId) = {}
       THEN \* the foreign key RefreshToken_userId_fkey rejects the insert: the handler throws
            /\ pc' = [pc EXCEPT ![p] = "crashed"]
            /\ req' = [req EXCEPT ![p] = Thrown(p)]
            /\ UNCHANGED <<tokens, issued, accessTokens, loginIssued, owners>>
       ELSE /\ LET raw == issued + 1
                   at == SignAccess([id |-> req[p].userId, role |-> req[p].role,
                                     email |-> req[p].email])
               IN /\ tokens' = tokens \cup {NewToken(req[p].userId, raw)}
                  /\ issued' = raw
                  /\ accessTokens' = accessTokens \cup {at}
                  /\ loginIssued' = loginIssued \cup {raw}
                  /\ owners' = Append(owners, req[p].userId)
                  /\ req' = [req EXCEPT ![p] =
                               Answer([req[p] EXCEPT !.status = 200, !.refreshOut = raw,
                                                     !.access = TRUE])]
            /\ pc' = [pc EXCEPT ![p] = "done"]
    /\ UNCHANGED <<variant, workers, quota, loginDeleted, served, now, users, nextUid, createdRoles, rotations,
                   refreshedOK, e2eDone>>
    /\ UNCHANGED <<invVars, inspVars>>

\* ------------------------------------------------------ POST /auth/refresh
Matching(h) == {t \in tokens : t.hashedToken = h}

\* the case a presented hash falls in, read off the table alone
Classify(h) ==
    CASE Matching(h) = {} -> "unknown"
      [] \A t \in Matching(h) : t.revokedAt # None -> "revoked"
      [] \A t \in Matching(h) : t.revokedAt = None => t.expiresAt < now -> "expired"
      [] OTHER -> "live"

RefreshStart(p, s) ==
    /\ Accepts(p)
    /\ served' = served + 1
    /\ req' = [req EXCEPT ![p] =
                 [BlankReq EXCEPT
                    !.op = "refresh", !.secret = s,
                    !.status = IF s = MissingSecret THEN 400 ELSE 0,
                    !.revokedAtStart = \E t \in Matching(Hash(s)) : t.revokedAt # None,
                    !.e2eAtStart = s \in e2eDone]]
    /\ pc' = [pc EXCEPT ![p] = IF s = MissingSecret THEN "done" ELSE "refresh_lookup"]
    /\ UNCHANGED <<variant, workers, quota, owners, loginDeleted, now, users, nextUid, tokens, issued, accessTokens,
                   createdRoles, rotations, loginIssued, refreshedOK, e2eDone>>
    /\ UNCHANGED <<invVars, inspVars>>

RefreshLookup(p) ==
    /\ pc[p] = "refresh_lookup"
    /\ LET found == FindFirst(Hash(req[p].secret))
           cls == Classify(Hash(req[p].secret))
       IN IF found = {}
          THEN /\ req' = [req EXCEPT ![p].status = 401, ![p].cls = cls]
               /\ pc' = [pc EXCEPT ![p] = "done"]
          ELSE \E t \in found :
                 IF Expired(t)
                 THEN /\ req' = [req EXCEPT ![p].status = 401, ![p].cls = cls]
                      /\ pc' = [pc EXCEPT ![p] = "done"]
                 ELSE /\ req' = [req EXCEPT ![p].tokenId = t.id, ![p].userId = t.userId,
                                            ![p].cls = cls]
                      /\ pc' = [pc EXCEPT ![p] = "refresh_user"]
    /\ UNCHANGED <<variant, workers, quota, owners, loginDeleted, served, now, users, nextUid, tokens, issued, accessTokens,
                   createdRoles, rotations, loginIssued, refreshedOK, e2eDone>>
    /\ UNCHANGED <<invVars, inspVars>>

\* a response that leaves the refresh token out
NoTokenInResponse(p) == MissingSecret

\* static variant: the refreshToken of the response is the one of the request body
PresentedToken(p) == req[p].secret

RefreshUser(p) ==
    /\ pc[p] = "refresh_user"
    /\ IF UserById(req[p].userId) = {}
       THEN /\ req' = [req EXCEPT ![p] = Answer([req[p] EXCEPT !.status = 401])]
            /\ pc' = [pc EXCEPT ![p] = "done"]
            /\ UNCHANGED <<accessTokens, refreshedOK>>
       ELSE \E u \in UserById(req[p].userId) :
              IF variant = "rotating"
              THEN /\ req' = [req EXCEPT ![p].role = u.role, ![p].email = u.email]
                   /\ pc' = [pc EXCEPT ![p] = "refresh_rotate"]
                   /\ UNCHANGED <<accessTokens, refreshedOK>>
              ELSE \* static variant: answer with the presented token
                   /\ req' = [req EXCEPT ![p] =
                                Answer([req[p] EXCEPT !.status = 200,
                                                      !.refreshOut = PresentedToken(p),
                                                      !.access = TRUE])]
                   /\ accessTokens' = accessTokens \cup {SignAccess(u)}
                   /\ refreshedOK' = refreshedOK \cup {req[p].secret}
                   /\ pc' = [pc EXCEPT ![p] = "done"]
    /\ UNCHANGED <<variant, workers, quota, owners, loginDeleted, served, now, users, nextUid, tokens, issued,
                   createdRoles, rotations, loginIssued, e2eDone>>
    /\ UNCHANGED <<invVars, inspVars>>

\* a rotation that revokes the old record and loses the insert of the new one
RotateTxUpdateOnly(old, raw) ==
    (tokens \ {old})
        \cup {[old EXCEPT !.revokedAt = Some(now), !.replacedByToken = Some(Hash(raw))]}

\* prisma.$transaction([update old by id, create new]): both writes or neither
RotateTx(old, raw) ==
    (tokens \ {old})
        \cup {[old EXCEPT !.revokedAt = Some(now), !.replacedByToken = Some(Hash(raw))]}
        \cup {NewToken(old.userId, raw)}

RefreshRotate(p) ==
    /\ pc[p] = "refresh_rotate"
    /\ IF {t \in tokens : t.id = req[p].tokenId} = {}
       THEN \* update of a missing row throws and rolls the transaction back
            /\ pc' = [pc EXCEPT ![p] = "crashed"]
            /\ req' = [req EXCEPT ![p] = Thrown(p)]
            /\ UNCHANGED <<tokens, issued, accessTokens, rotations, refreshedOK, owners>>
       ELSE /\ \E old \in {t \in tokens : t.id = req[p].tokenId} :
                 LET raw == issued + 1
                     at == SignAccess([id |-> req[p].userId, role |-> req[p].role,
                                       email |-> req[p].email])
                 IN /\ tokens' = RotateTx(old, raw)
                    /\ issued' = raw
                    /\ rotations' = rotations \cup {<<old.id, raw>>}
                    /\ owners' = Append(owners, old.userId)
                    /\ accessTokens' = accessTokens \cup {at}
                    /\ refreshedOK' = refreshedOK \cup {req[p].secret}
                    /\ req' = [req EXCEPT ![p] =
                                 Answer([req[p] EXCEPT !.status = 200, !.refreshOut = raw,
                                                       !.access = TRUE])]
            /\ pc' = [pc EXCEPT ![p] = "done"]
    /\ UNCHANGED <<variant, workers, quota, loginDeleted, served, now, users, nextUid, createdRoles, loginIssued, e2eDone>>
    /\ UNCHANGED <<invVars, inspVars>>

\* ------------------------------------------------------- POST /auth/logout
\* a logout that revokes nothing
LogoutNoUpdate(h) == tokens

\* a logout that ends every session of the token's user
LogoutAllOfUser(h) ==
    {IF t.revokedAt = None /\ (\E o \in Matching(h) : o.userId = t.userId)
     THEN [t EXCEPT !.revokedAt = Some(now)] ELSE t : t \in tokens}

\* prisma.refreshToken.updateMany({ where: { hashedToken, revokedAt: null }, data: { revokedAt } })
LogoutUpdate(h) ==
    {IF t.hashedToken = h /\ t.revokedAt = None
     THEN [t EXCEPT !.revokedAt = Some(now)] ELSE t : t \in tokens}

Logout(p, s) ==
    /\ Accepts(p)
    /\ served' = served + 1
    /\ tokens' = IF s = MissingSecret THEN tokens ELSE LogoutUpdate(Hash(s))
    /\ req' = [req EXCEPT ![p] =
                 [BlankReq EXCEPT !.op = "logout", !.secret = s, !.status = 200,
                                  !.cls = Classify(Hash(s))]]
    /\ pc' = [pc EXCEPT ![p] = "done"]
    /\ e2eDone' = e2eDone \cup
                    {t0 \in loginIssued \cap refreshedOK :
                        s = t0 \/ <<t0, s>> \in rotations}
    /\ UNCHANGED <<variant, workers, quota, owners, loginDeleted, now, users, nextUid, issued, accessTokens,
                   createdRoles, rotations, loginIssued, refreshedOK>>
    /\ UNCHANGED <<invVars, inspVars>>

\* ------------------------------------------------------- protected routes
\* requireAuth: a Bearer header whose token verifies
RequireAuth(at) == at # NoAccessToken /\ VerifyAccess(at)

\* a gate that lets every authenticated role through
RequireAnyRole(at, roles) == TRUE

\* a gate that asks the User table for the caller's present role
RequireCurrentRole(at, roles) == \E u \in UserById(at.sub) : u.role \in roles

\* requireRole(...roles): the decoded role is in the allow-list
RequireRole(at, roles) == at.role \in roles

\* a foreign key that leaves the RefreshToken rows of a deleted user in place
NoCascade(id) == tokens

\* RefreshToken_userId_fkey ... ON DELETE CASCADE
CascadeDelete(id) == {t \in tokens : t.userId # id}

\* DELETE /users/:id: requireAuth, requireRole(SUPER_ADMIN), prisma.user.delete;
\* the foreign key RefreshToken_userId_fkey is ON DELETE CASCADE
DeleteUser(p, at, id) ==
    /\ Accepts(p)
    /\ served' = served + 1
    /\ LET r == [BlankReq EXCEPT !.op = "delete", !.at = at, !.userId = id]
       IN CASE ~RequireAuth(at) ->
                 /\ req' = [req EXCEPT ![p] = [r EXCEPT !.status = 401]]
                 /\ pc' = [pc EXCEPT ![p] = "done"]
                 /\ UNCHANGED <<users, tokens>>
            [] RequireAuth(at) /\ ~RequireRole(at, {"SUPER_ADMIN"}) ->
                 /\ req' = [req EXCEPT ![p] = [r EXCEPT !.status = 403]]
                 /\ pc' = [pc EXCEPT ![p] = "done"]
                 /\ UNCHANGED <<users, tokens>>
            [] RequireAuth(at) /\ RequireRole(at, {"SUPER_ADMIN"}) /\ UserById(id) = {} ->
                 \* prisma.user.delete of a missing row throws: no response
                 /\ req' = [req EXCEPT ![p] = r]
                 /\ pc' = [pc EXCEPT ![p] = "crashed"]
                 /\ UNCHANGED <<users, tokens>>
            [] OTHER ->
                 /\ users' = {u \in users : u.id # id}
                 /\ tokens' = CascadeDelete(id)
                 /\ req' = [req EXCEPT ![p] = [r EXCEPT !.status = 204]]
                 /\ pc' = [pc EXCEPT ![p] = "done"]
    /\ UNCHANGED <<variant, workers, quota, owners, loginDeleted, now, nextUid, issued, accessTokens,
                   createdRoles, rotations, loginIssued, refreshedOK, e2eDone>>
    /\ UNCHANGED <<invVars, inspVars>>

\* PATCH /users/:id/role: requireAuth, requireRole(SUPER_ADMIN), VALID_ROLES check,
\* prisma.user.update
PatchRole(p, at, id, role) ==
    /\ Accepts(p)
    /\ served' = served + 1
    /\ LET r == [BlankReq EXCEPT !.op = "patch", !.at = at, !.userId = id, !.role = role]
       IN CASE ~RequireAuth(at) ->
                 /\ req' = [req EXCEPT ![p] = [r EXCEPT !.status = 401]]
                 /\ pc' = [pc EXCEPT ![p] = "done"]
                 /\ UNCHANGED users
            [] RequireAuth(at) /\ ~RequireRole(at, {"SUPER_ADMIN"}) ->
                 /\ req' = [req EXCEPT ![p] = [r EXCEPT !.status = 403]]
                 /\ pc' = [pc EXCEPT ![p] = "done"]
                 /\ UNCHANGED users
            [] RequireAuth(at) /\ RequireRole(at, {"SUPER_ADMIN"})
                  /\ role \notin VALID_ROLES ->
                 /\ req' = [req EXCEPT ![p] = [r EXCEPT !.status = 400]]
                 /\ pc' = [pc EXCEPT ![p] = "done"]
                 /\ UNCHANGED users
            [] RequireAuth(at) /\ RequireRole(at, {"SUPER_ADMIN"})
                  /\ role \in VALID_ROLES /\ UserById(id) = {} ->
                 \* prisma.user.update of a missing row throws: no response
                 /\ req' = [req EXCEPT ![p] = r]
                 /\ pc' = [pc EXCEPT ![p] = "crashed"]
                 /\ UNCHANGED users
            [] OTHER ->
                 /\ users' = {IF u.id = id THEN [u EXCEPT !.role = role] ELSE u : u \in users}
                 /\ req' = [req EXCEPT ![p] = [r EXCEPT !.status = 200]]
                 /\ pc' = [pc EXCEPT ![p] = "done"]
    /\ UNCHANGED <<variant, workers, quota, owners, loginDeleted, now, nextUid, tokens, issued, accessTokens,
                   createdRoles, rotations, loginIssued, refreshedOK, e2eDone>>
    /\ UNCHANGED <<invVars, inspVars>>

\* ------------------------------------------------------------ GET /auth/me
\* a lookup that answers from the token's claims
MeUserFromClaims(at) ==
    {[id |-> at.sub, email |-> at.email, googleId |-> "", role |-> at.role]}

\* prisma.user.findUnique({ where: { id: payload.sub } })
MeUser(at) == UserById(at.sub)

Me(p, at) ==
    /\ Accepts(p)
    /\ served' = served + 1
    /\ req' = [req EXCEPT ![p] =
                 [BlankReq EXCEPT
                    !.op = "me", !.at = at,
                    !.status = IF at # NoAccessToken /\ VerifyAccess(at) /\ MeUser(at) # {}
                               THEN 200 ELSE 401]]
    /\ pc' = [pc EXCEPT ![p] = "done"]
    /\ UNCHANGED <<variant, workers, quota, owners, loginDeleted, now, users, nextUid, tokens, issued, accessTokens,
                   createdRoles, rotations, loginIssued, refreshedOK, e2eDone>>
    /\ UNCHANGED <<invVars, inspVars>>

\* --------------------------------------------------------------- environment
Tick ==
    /\ now < MaxTime
    /\ now' = now + 1
    /\ UNCHANGED <<variant, workers, quota, owners, loginDeleted, served, users, nextUid, tokens, issued, accessTokens, pc, req,
                   createdRoles, rotations, loginIssued, refreshedOK, e2eDone>>
    /\ UNCHANGED <<invVars, inspVars>>

\* the process dies, or the request is abandoned, between two awaits
Crash(p) ==
    /\ ~Free(p)
    /\ pc' = [pc EXCEPT ![p] = "crashed"]
    /\ req' = [req EXCEPT ![p] = Thrown(p)]
    /\ UNCHANGED <<variant, workers, quota, owners, loginDeleted, served, now, users, nextUid, tokens, issued, accessTokens,
                   createdRoles, rotations, loginIssued, refreshedOK, e2eDone>>
    /\ UNCHANGED <<invVars, inspVars>>

\* what a client can put in the body: nothing, a secret it was given, or one it made up
Presentable == {MissingSecret, UnknownSecret} \cup (1 .. issued)

\* what a client can put in the Authorization header
Bearer == accessTokens \cup {NoAccessToken, ForgedAccessToken}

\* role values a PATCH body carries: two of the enum and one outside it
PatchRoles == {"SUPER_ADMIN", "USER", "ROOT"}

AuthNext ==
    \/ \E p \in Procs, e \in Emails, g \in GoogleIds,
             body \in {"malformed", "badToken", "ok"} : LoginStart(p, e, g, body)
    \/ \E p \in Procs : LoginCount(p)
    \/ \E p \in Procs : LoginUpsert(p)
    \/ \E p \in Procs : LoginDeleteMany(p)
    \/ \E p \in Procs : LoginIssue(p)
    \/ \E p \in Procs, s \in Presentable : RefreshStart(p, s)
    \/ \E p \in Procs : RefreshLookup(p)
    \/ \E p \in Procs : RefreshUser(p)
    \/ \E p \in Procs : RefreshRotate(p)
    \/ \E p \in Procs, s \in Presentable : Logout(p, s)
    \/ \E p \in Procs, at \in Bearer, id \in 1 .. nextUid : DeleteUser(p, at, id)
    \/ \E p \in Procs, at \in Bearer, id \in 1 .. nextUid, role \in PatchRoles :
          PatchRole(p, at, id, role)
    \/ \E p \in Procs, at \in Bearer : Me(p, at)
    \/ Tick
    \/ \E p \in Procs : Crash(p)

\* ------------------------------------------------------------- invoices
\* strings are sequences of one-character strings
Russia == <<"R", "u", "s", "s", "i", "a">>
Uzbekistan == <<"U", "z", "b", "e", "k", "i", "s", "t", "a", "n">>
Kazakhstan == <<"K", "a", "z", "a", "k", "h", "s", "t", "a", "n">>
Kyrgyzstan == <<"K", "y", "r", "g", "y", "z", "s", "t", "a", "n">>
Rumania == <<"R", "u", "m", "a", "n", "i", "a">>

\* country values the requests carry (any non-empty string passes the schema)
Countries == {Russia, Rumania}

\* the calendar days the clock passes through
Days == <<[y |-> 2025, m |-> 11, d |-> 30], [y |-> 2025, m |-> 12, d |-> 1]>>

COUNTRY_CODE_MAP ==
    [c \in {Russia, Uzbekistan, Kazakhstan, Kyrgyzstan} |->
        CASE c = Russia -> <<"R", "U">>
          [] c = Uzbekistan -> <<"U", "Z">>
          [] c = Kazakhstan -> <<"K", "Z">>
          [] OTHER -> <<"K", "G">>]

Lower == <<"a", "b", "c", "d", "e", "f", "g", "h", "i", "j", "k", "l", "m",
           "n", "o", "p", "q", "r", "s", "t", "u", "v", "w", "x", "y", "z">>
Upper == <<"A", "B", "C", "D", "E", "F", "G", "H", "I", "J", "K", "L", "M",
           "N", "O", "P", "Q", "R", "S", "T", "U", "V", "W", "X", "Y", "Z">>

\* String.prototype.toUpperCase, one character
UpperChar(ch) ==
    IF \E i \in DOMAIN Lower : Lower[i] = ch
    THEN Upper[CHOOSE i \in DOMAIN Lower : Lower[i] = ch]
    ELSE ch

ToUpperCase(str) == [i \in DOMAIN str |-> UpperChar(str[i])]

\* String.prototype.substring(0, n)
Substring0(str, n) == SubSeq(str, 1, IF Len(str) < n THEN Len(str) ELSE n)

DigitChars == <<"0", "1", "2", "3", "4", "5", "6", "7", "8", "9">>

\* String(n) for n >= 0
RECURSIVE NumToString(_)
NumToString(n) ==
    IF n < 10 THEN <<DigitChars[n + 1]>>
    ELSE NumToString(n \div 10) \o <<DigitChars[(n % 10) + 1]>>

\* String.prototype.padStart(len, ch)
RECURSIVE PadStart(_, _, _)
PadStart(str, len, ch) ==
    IF Len(str) >= len THEN str ELSE PadStart(<<ch>> \o str, len, ch)

\* COUNTRY_CODE_MAP[country] || country.substring(0, 2).toUpperCase()
CountryCode(country) ==
    IF country \in DOMAIN COUNTRY_CODE_MAP
    THEN COUNTRY_CODE_MAP[country]
    ELSE ToUpperCase(Substring0(country, 2))

\* `${year}${month}${day}` with month and day padded to 2 digits
DateStr(day) ==
    NumToString(Days[day].y) \o PadStart(NumToString(Days[day].m), 2, "0")
                          \o PadStart(NumToString(Days[day].d), 2, "0")

\* a count that forgets the day window
CountIgnoringDay(country, day) ==
    Cardinality({i \in invoices : i.country = country})

\* prisma.invoice.count({ where: { country, date: { gte: startOfDay, lte: endOfDay } } })
CountInvoices(country, day) ==
    Cardinality({i \in invoices : i.country = country /\ i.date = day})

generateInvoiceNumber(country, day) ==
    CountryCode(country) \o <<"-">> \o DateStr(day)
        \o PadStart(NumToString(CountInvoices(country, day) + 1), 2, "0")

BlankInvoiceReq == [country |-> <<>>, date |-> 0, invoiceNumber |-> <<>>, status |-> 0]

InvInit ==
    /\ invoices = {}
    /\ nextInvoiceId = 0
    /\ today = 1
    /\ ipc = [p \in Procs |-> "idle"]
    /\ ireq = [p \in Procs |-> BlankInvoiceReq]

\* POST /invoices up to the number: parse the body, take new Date(), count and format
CreateInvoiceStart(p, country) ==
    /\ ipc[p] \in {"idle", "done"}
    /\ ireq' = [ireq EXCEPT ![p] =
                  [country |-> country, date |-> today,
                   invoiceNumber |-> generateInvoiceNumber(country, today),
                   status |-> 0]]
    /\ ipc' = [ipc EXCEPT ![p] = "prepare"]
    /\ UNCHANGED <<invoices, nextInvoiceId, today>>
    /\ UNCHANGED <<authVars, inspVars>>

\* company, port info and car record lookups, then the call to the document generator:
\* any of them may end the request before the insert
PrepareFailures == {404, 500, 503, 504}

CreateInvoicePrepare(p, outcome) ==
    /\ ipc[p] = "prepare"
    /\ IF outcome \in PrepareFailures
       THEN /\ ireq' = [ireq EXCEPT ![p].status = outcome]
            /\ ipc' = [ipc EXCEPT ![p] = "done"]
       ELSE /\ ipc' = [ipc EXCEPT ![p] = "insert"]
            /\ UNCHANGED ireq
    /\ UNCHANGED <<invoices, nextInvoiceId, today>>
    /\ UNCHANGED <<authVars, inspVars>>

\* an Invoice table without the unique index
NoUniqueIndex(number) == FALSE

\* the unique index Invoice_invoiceNumber_key: an insert of a number already stored fails (P2002)
UniqueViolation(number) == \E i \in invoices : i.invoiceNumber = number

\* prisma.invoice.create, and the catch that turns P2002 into 409
CreateInvoiceInsert(p) ==
    /\ ipc[p] = "insert"
    /\ IF UniqueViolation(ireq[p].invoiceNumber)
       THEN /\ ireq' = [ireq EXCEPT ![p].status = 409]
            /\ UNCHANGED <<invoices, nextInvoiceId>>
       ELSE /\ nextInvoiceId < MaxInvoices
            /\ invoices' = invoices \cup
                             {[id |-> nextInvoiceId + 1,
                               invoiceNumber |-> ireq[p].invoiceNumber,
                               country |-> ireq[p].country, date |-> ireq[p].date]}
            /\ nextInvoiceId' = nextInvoiceId + 1
            /\ ireq' = [ireq EXCEPT ![p].status = 201]
    /\ ipc' = [ipc EXCEPT ![p] = "done"]
    /\ UNCHANGED today
    /\ UNCHANGED <<authVars, inspVars>>

\* DELETE /invoices/:id
DeleteInvoice(id) ==
    /\ \E i \in invoices : i.id = id
    /\ invoices' = {i \in invoices : i.id # id}
    /\ UNCHANGED <<nextInvoiceId, today, ipc, ireq>>
    /\ UNCHANGED <<authVars, inspVars>>

\* midnight passes
NextDay ==
    /\ today < Len(Days)
    /\ today' = today + 1
    /\ UNCHANGED <<invoices, nextInvoiceId, ipc, ireq>>
    /\ UNCHANGED <<authVars, inspVars>>

InvNext ==
    \/ \E p \in Procs, c \in Countries : CreateInvoiceStart(p, c)
    \/ \E p \in Procs, o \in PrepareFailures \cup {200} : CreateInvoicePrepare(p, o)
    \/ \E p \in Procs : CreateInvoiceInsert(p)
    \/ \E id \in 1 .. MaxInvoices : DeleteInvoice(id)
    \/ NextDay

\* ------------------------------------------------------------ inspections
maxAttempts == 10

\* the values generateInspectionId() draws from, and what a body can carry
InspectionIds == {1, 2}
NoInspectionId == 0              \* inspectionId absent or blank in the body

BlankInspectionReq ==
    [provided |-> NoInspectionId, inspectionId |-> NoInspectionId, attempts |-> 0,
     lookups |-> 0, status |-> 0]

InspInit ==
    /\ inspections = {}
    /\ xpc = [p \in Procs |-> "idle"]
    /\ xreq = [p \in Procs |-> BlankInspectionReq]

\* prisma.inspection.findUnique({ where: { inspectionId } })
ExistingInspection(id) == {i \in inspections : i.inspectionId = id}

\* POST /inspections up to the choice between a provided and a generated id
CreateInspectionStart(p, provided) ==
    /\ xpc[p] \in {"idle", "done", "crashed"}
    /\ xreq' = [xreq EXCEPT ![p] =
                  [BlankInspectionReq EXCEPT
                     !.provided = provided, !.inspectionId = provided]]
    /\ xpc' = [xpc EXCEPT ![p] =
                  IF provided # NoInspectionId THEN "check_provided" ELSE "generate"]
    /\ UNCHANGED inspections
    /\ UNCHANGED <<authVars, invVars>>

\* the lookup of a provided id: 400 when it exists
CheckProvided(p) ==
    /\ xpc[p] = "check_provided"
    /\ IF ExistingInspection(xreq[p].inspectionId) # {}
       THEN /\ xreq' = [xreq EXCEPT ![p].status = 400, ![p].lookups = 1]
            /\ xpc' = [xpc EXCEPT ![p] = "done"]
       ELSE /\ xreq' = [xreq EXCEPT ![p].lookups = 1]
            /\ xpc' = [xpc EXCEPT ![p] = "create"]
    /\ UNCHANGED inspections
    /\ UNCHANGED <<authVars, invVars>>

\* one turn of the do-while: generateInspectionId(), findUnique, break or attempts++;
\* after the loop, 500 when attempts >= maxAttempts
GenerateAndLookup(p, candidate) ==
    /\ xpc[p] = "generate"
    /\ IF ExistingInspection(candidate) = {}
       THEN /\ xreq' = [xreq EXCEPT ![p].inspectionId = candidate,
                                     ![p].lookups = @ + 1]
            /\ xpc' = [xpc EXCEPT ![p] = "create"]
       ELSE IF xreq[p].attempts + 1 < maxAttempts
            THEN /\ xreq' = [xreq EXCEPT ![p].inspectionId = candidate,
                                          ![p].attempts = @ + 1,
                                          ![p].lookups = @ + 1]
                 /\ UNCHANGED xpc
            ELSE /\ xreq' = [xreq EXCEPT ![p].inspectionId = candidate,
                                          ![p].attempts = @ + 1,
                                          ![p].lookups = @ + 1,
                                          ![p].status = 500]
                 /\ xpc' = [xpc EXCEPT ![p] = "done"]
    /\ UNCHANGED inspections
    /\ UNCHANGED <<authVars, invVars>>

\* prisma.inspection.create; the unique index on inspectionId rejects a stored id
CreateInspection(p) ==
    /\ xpc[p] = "create"
    /\ IF ExistingInspection(xreq[p].inspectionId) # {}
       THEN \* P2002 is caught, but the catch block's message reads providedInspectionId
            \* and inspectionId, which are declared inside the try block and are not in
            \* scope there: a ReferenceError leaves the handler, no response is sent
            /\ xpc' = [xpc EXCEPT ![p] = "crashed"]
            /\ UNCHANGED <<xreq, inspections>>
       ELSE /\ inspections' = inspections \cup
                                 {[id |-> Cardinality(inspections) + 1,
                                   inspectionId |-> xreq[p].inspectionId]}
            /\ xreq' = [xreq EXCEPT ![p].status = 201]
            /\ xpc' = [xpc EXCEPT ![p] = "done"]
    /\ UNCHANGED <<authVars, invVars>>

InspNext ==
    \/ \E p \in Procs, id \in InspectionIds \cup {NoInspectionId} :
          CreateInspectionStart(p, id)
    \/ \E p \in Procs : CheckProvided(p)
    \/ \E p \in Procs, id \in InspectionIds : GenerateAndLookup(p, id)
    \/ \E p \in Procs : CreateInspection(p)

Init == AuthInit /\ InvInit /\ InspInit
Next == AuthNext
Spec == Init /\ [][Next]_vars

\* the invoice handlers alone
InvoiceInit == FreshStart(Procs, MaxRequests) /\ variant = "rotating" /\ InvInit /\ InspInit
InvoiceSpec == InvoiceInit /\ [][InvNext]_vars

\* the inspection handlers alone
InspectionSpec == InvoiceInit /\ [][InspNext]_vars

\* the same handlers with one request at a time, for claims about sequences of requests
SeqAuthInit == FreshStart({1}, SeqRequests) \/ FirstLoginDone({1}, SeqRequests)
SeqInit == SeqAuthInit /\ InvInit /\ InspInit
SeqSpec == SeqInit /\ [][Next]_vars

\* ------------------------------------------------------------------ claims

\* C1: in the rotating variant, of two refresh requests that carried the same
\* token, when one answered 200 the other answered 401.
C1_RotationExactlyOnce ==
    variant = "rotating" =>
        \A p, q \in Procs :
            (/\ p # q
             /\ pc[p] = "done" /\ req[p].op = "refresh"
             /\ pc[q] = "done" /\ req[q].op = "refresh"
             /\ req[p].secret = req[q].secret
             /\ req[p].status = 200) => req[q].status = 401

\* C2: a refresh request that arrived when a record with the hash of its secret
\* was revoked never gets past the lookup, and ends with 401 and no access token.
C2_RevokedNeverValidates ==
    \A p \in Procs :
        (req[p].op = "refresh" /\ req[p].revokedAtStart) =>
            /\ pc[p] \in {"refresh_lookup", "done"}
            /\ pc[p] = "done" => (req[p].status = 401 /\ ~req[p].access)

C2_Witness ==
    \E p \in Procs :
        /\ pc[p] = "done" /\ req[p].op = "refresh"
        /\ req[p].revokedAtStart /\ req[p].status = 401

\* C3: in every state, a record that points to a successor is revoked and the
\* successor it points to exists; and when the record a rotation created exists,
\* the record it was rotated from exists, is revoked and points to a successor.
C3_RotationAllOrNothing ==
    /\ \A t \in tokens :
          t.replacedByToken # None =>
              /\ t.revokedAt # None
              /\ \E n \in tokens : Some(n.hashedToken) = t.replacedByToken
    /\ \A r \in rotations :
          (\E n \in tokens : n.id = r[2]) =>
              \E o \in tokens :
                  /\ o.id = r[1]
                  /\ o.revokedAt # None
                  /\ o.replacedByToken # None

C3_Witness ==
    /\ \E t \in tokens : t.replacedByToken # None
    /\ \E p \in Procs : pc[p] = "crashed" /\ req[p].op = "refresh"

\* C4: a finished refresh request whose secret, at the lookup, had no record, only
\* revoked records, or an unrevoked record past its expiry, answered 401 without an
\* access token; one that answered 200 had a record neither revoked nor past expiry.
C4_ValidationCases ==
    \A p \in Procs :
        (pc[p] = "done" /\ req[p].op = "refresh" /\ req[p].secret # MissingSecret) =>
            /\ req[p].cls \in {"unknown", "revoked", "expired"} =>
                  (req[p].status = 401 /\ ~req[p].access)
            /\ req[p].status = 200 => req[p].cls = "live"

C4_Witness ==
    \E p, q \in Procs :
        /\ pc[p] = "done" /\ req[p].op = "refresh"
        /\ req[p].cls = "expired" /\ req[p].status = 401
        /\ pc[q] = "done" /\ req[q].op = "refresh"
        /\ req[q].cls = "live" /\ req[q].status = 200

\* C5: a refresh request with a login's token T0, arriving after a refresh with T0
\* answered 200 and a logout with T0 or its successor followed, answers 401.
C5_EndToEnd ==
    \A p \in Procs :
        (pc[p] = "done" /\ req[p].op = "refresh" /\ req[p].e2eAtStart) =>
            (req[p].status = 401 /\ ~req[p].access)

C5_Witness ==
    \E p \in Procs :
        /\ pc[p] = "done" /\ req[p].op = "refresh"
        /\ req[p].e2eAtStart /\ req[p].status = 401

\* C6: no step changes a field of a record that is revoked or past its expiry.
C6_NoTransitionOutOfDead ==
    [][\A t \in tokens :
          (t.revokedAt # None \/ t.expiresAt < now) =>
              \A t2 \in tokens' : t2.id = t.id => t2 = t]_vars

\* C7: a logout with no token, or with a token that is unknown, revoked or past
\* its expiry, answers 200 and leaves the RefreshToken table as it was.
C7_LogoutNoMutation ==
    [][\A p \in Procs :
          (/\ Accepts(p)
           /\ served' = served + 1
           /\ req'[p].op = "logout"
           /\ req'[p].cls # "live") =>
              (tokens' = tokens /\ req'[p].status = 200)]_vars

\* C8: the first User row ever created has role SUPER_ADMIN and every later one USER.
C8_BootstrapRole ==
    \A i \in DOMAIN createdRoles :
        createdRoles[i] = IF i = 1 THEN "SUPER_ADMIN" ELSE "USER"

\* C9: no two stored invoices share an invoiceNumber; an insert of a number that
\* is stored answers 409 and leaves the table as it was, and any other insert
\* answers 201 and only adds its row.
C9_DuplicateNumberConflict ==
    /\ [](\A i, j \in invoices : i.invoiceNumber = j.invoiceNumber => i = j)
    /\ [][\A p \in Procs :
            (ipc[p] = "insert" /\ ipc'[p] = "done") =>
                IF \E i \in invoices : i.invoiceNumber = ireq[p].invoiceNumber
                THEN invoices' = invoices /\ ireq'[p].status = 409
                ELSE /\ ireq'[p].status = 201
                     /\ invoices \subseteq invoices'
                     /\ \E i \in invoices' \ invoices :
                           i.invoiceNumber = ireq[p].invoiceNumber]_vars

C9_Witness ==
    \E p, q \in Procs :
        /\ ipc[p] = "done" /\ ireq[p].status = 201
        /\ ipc[q] = "done" /\ ireq[q].status = 409
        /\ ireq[p].invoiceNumber = ireq[q].invoiceNumber
        /\ ireq[p].country = ireq[q].country
        /\ \E i \in invoices : i.invoiceNumber = ireq[p].invoiceNumber

\* C10: no two requests hold the same generated invoice number.
C10_NoDuplicateNumberIssued ==
    \A p, q \in Procs :
        (p # q /\ ireq[p].invoiceNumber # <<>> /\ ireq[q].invoiceNumber # <<>>) =>
            ireq[p].invoiceNumber # ireq[q].invoiceNumber

\* C11: the number a request is given is code, "-", YYYYMMDD and the ordinal N+1 in
\* two digits, where N counts the stored invoices of the request's country value
\* dated on the request's day; other countries and other days do not count.
C11_ExpectedCode(country) ==
    IF country = Russia THEN <<"R", "U">> ELSE <<"R", "U">>

C11_ExpectedDate(day) ==
    IF day = 1 THEN <<"2", "0", "2", "5", "1", "1", "3", "0">>
    ELSE <<"2", "0", "2", "5", "1", "2", "0", "1">>

C11_ExpectedSeq(n) ==
    CASE n = 0 -> <<"0", "1">>
      [] n = 1 -> <<"0", "2">>
      [] n = 2 -> <<"0", "3">>
      [] OTHER -> <<"0", "4">>

C12_LoginRejections ==
    [][\A p \in Procs :
          (Accepts(p) /\ served' = served + 1 /\ req'[p].op = "login") =>
              /\ users' = users
              /\ tokens' = tokens
              /\ pc'[p] \in {"done", "login_count"}
              /\ pc'[p] = "done" => req'[p].status \in {400, 401}]_vars

\* what the store holds of a secret: its sha256 digest
C13_StoresOnlyHashes ==
    \A t \in tokens :
        /\ \E s \in 1 .. issued : t.hashedToken = Hash(s)
        /\ t.replacedByToken # None =>
              \E s \in 1 .. issued : t.replacedByToken = Some(Hash(s))

\* C13: the store holds only hashes of secrets, and a response that carries a
\* refresh secret is the response of the step that generated that secret.
C13_RawSecretOnce ==
    /\ []C13_StoresOnlyHashes
    /\ [][\A p \in Procs :
            (/\ pc'[p] = "done"
             /\ (pc[p] # "done" \/ req'[p] # req[p])
             /\ req'[p].refreshOut # MissingSecret) =>
                (issued' = issued + 1 /\ req'[p].refreshOut = issued')]_vars

\* C13 as amended: the store holds only hashes of secrets, and a response that
\* carries a refresh secret is either the response of the step that generated it or
\* a refresh response of the static variant repeating the secret its request presented.
C13_RawSecretNotRetrievable ==
    /\ []C13_StoresOnlyHashes
    /\ [][\A p \in Procs :
            (/\ pc'[p] = "done"
             /\ (pc[p] # "done" \/ req'[p] # req[p])
             /\ req'[p].refreshOut # MissingSecret) =>
                \/ (issued' = issued + 1 /\ req'[p].refreshOut = issued')
                \/ /\ variant = "static"
                   /\ req'[p].op = "refresh"
                   /\ req'[p].refreshOut = req'[p].secret
                   /\ issued' = issued]_vars

C13_Witness ==
    /\ \E p \in Procs :
          /\ pc[p] = "done" /\ req[p].op = "refresh" /\ req[p].status = 200
          /\ req[p].refreshOut = req[p].secret
    /\ \E q \in Procs :
          /\ pc[q] = "done" /\ req[q].op = "login" /\ req[q].status = 200
          /\ \E t \in tokens : t.hashedToken = Hash(req[q].refreshOut)

\* C14: whether a call of a protected route is rejected with 401 is decided by the
\* bearer token and the clock alone (the token was signed by this server and its
\* expiry is in the future), whatever the User and RefreshToken tables hold; a
\* token whose ttl has elapsed is rejected with 401.
C14_AccessSelfContained ==
    [][\A p \in Procs :
          (Accepts(p) /\ served' = served + 1 /\ req'[p].op = "delete") =>
              LET at == req'[p].at
              IN /\ (pc'[p] = "done" /\ req'[p].status = 401)
                        <=> ~(at \in accessTokens /\ now < at.exp)
                 /\ at.exp <= now => (pc'[p] = "done" /\ req'[p].status = 401)]_vars

\* a call accepted with the token of a user who was deleted before the call
C14_Witness ==
    \E p \in Procs :
        /\ pc[p] = "done" /\ req[p].op = "delete" /\ req[p].status = 204
        /\ req[p].userId # req[p].at.sub
        /\ UserById(req[p].at.sub) = {}

\* C15: DELETE /users/:id answers 401 without a valid access token and 403 when the
\* token's role is not SUPER_ADMIN, changing nothing in either case; a user is
\* deleted only for a valid token whose role is SUPER_ADMIN.
C15_RoleGate ==
    [][\A p \in Procs :
          (Accepts(p) /\ served' = served + 1 /\ req'[p].op = "delete") =>
              LET at == req'[p].at
                  valid == at \in accessTokens /\ now < at.exp
                  same == /\ users' = users /\ tokens' = tokens /\ nextUid' = nextUid
                          /\ issued' = issued /\ accessTokens' = accessTokens
              IN /\ ~valid => (pc'[p] = "done" /\ req'[p].status = 401 /\ same)
                 /\ (valid /\ at.role # "SUPER_ADMIN") =>
                        (pc'[p] = "done" /\ req'[p].status = 403 /\ same)
                 /\ (~same \/ req'[p].status = 204) =>
                        (valid /\ at.role = "SUPER_ADMIN")]_vars

C15_Witness ==
    \E p \in Procs :
        /\ pc[p] = "done" /\ req[p].op = "delete" /\ req[p].status = 403
        /\ req[p].at \in accessTokens /\ req[p].at.role = "USER"
        /\ UserById(req[p].userId) # {}

\* C18: GET /auth/me answers 200 exactly when the bearer token was signed by this
\* server, has not expired and a User with the token's subject id exists; in every
\* other case it answers 401; it changes nothing.
C18_WhoAmI ==
    [][\A p \in Procs :
          (Accepts(p) /\ served' = served + 1 /\ req'[p].op = "me") =>
              LET at == req'[p].at
              IN /\ pc'[p] = "done"
                 /\ req'[p].status \in {200, 401}
                 /\ req'[p].status = 200 <=>
                        /\ at \in accessTokens
                        /\ now < at.exp
                        /\ \E u \in users : u.id = at.sub
                 /\ users' = users /\ tokens' = tokens]_vars

\* 401 for a token that still verifies but whose user has been deleted
C18_Witness ==
    \E p \in Procs :
        /\ pc[p] = "done" /\ req[p].op = "me" /\ req[p].status = 401
        /\ req[p].at \in accessTokens /\ now < req[p].at.exp
        /\ UserById(req[p].at.sub) = {}

\* the user the secret of request p was issued to has been deleted
OwnerGone(p) ==
    /\ req[p].secret \in 1 .. issued
    /\ UserById(owners[req[p].secret]) = {}

\* C16: a step of the refresh handler taken when the owner of the presented token
\* no longer exists (at the lookup, at the user fetch or at the rotation) answers
\* 401, creates no RefreshToken record and signs no access token.
C16_RefreshDeletedUser ==
    [][\A p \in Procs :
          (/\ OwnerGone(p)
           /\ RefreshLookup(p) \/ RefreshUser(p) \/ RefreshRotate(p)) =>
              /\ pc'[p] = "done"
              /\ req'[p].status = 401
              /\ tokens' = tokens
              /\ accessTokens' = accessTokens]_vars

\* C17: no step of the refresh handler ends in a thrown exception, and a finished
\* refresh request answered 200, 400 or 401.
C17_RefreshDefinedResponse ==
    [][\A p \in Procs :
          (RefreshStart(p, req'[p].secret) \/ RefreshLookup(p)
              \/ RefreshUser(p) \/ RefreshRotate(p)) =>
              /\ pc'[p] # "crashed"
              /\ pc'[p] = "done" => req'[p].status \in {200, 400, 401}]_vars

\* C19: every RefreshToken record belongs to an existing User, and a refresh request
\* that finishes after the owner of its secret was deleted answers 401 without an
\* access token.
C19_TokensOwnedByUsers ==
    /\ [](\A t \in tokens : \E u \in users : u.id = t.userId)
    /\ [][\A p \in Procs :
            (/\ req[p].op = "refresh" /\ OwnerGone(p)
             /\ pc[p] # "done" /\ pc'[p] = "done") =>
                (req'[p].status = 401 /\ ~req'[p].access)]_vars

\* a refresh answered 401 with the only secret of a deleted user, no record left
C19_Witness ==
    \E p \in Procs :
        /\ pc[p] = "done" /\ req[p].op = "refresh" /\ req[p].status = 401
        /\ OwnerGone(p)
        /\ tokens = {}
        /\ \E q \in Procs : pc[q] = "done" /\ req[q].op = "delete" /\ req[q].status = 204

\* C20: no two RefreshToken records that are neither revoked nor past their expiry
\* have the same hashedToken.
C20_OneLiveRecordPerHash ==
    \A t1, t2 \in tokens :
        (/\ t1.hashedToken = t2.hashedToken
         /\ t1.revokedAt = None /\ t2.revokedAt = None
         /\ ~(t1.expiresAt < now) /\ ~(t2.expiresAt < now)) => t1 = t2

\* two live records of one user, under different hashes
C20_Witness ==
    \E t1, t2 \in tokens :
        /\ t1 # t2 /\ t1.userId = t2.userId
        /\ t1.revokedAt = None /\ t2.revokedAt = None
        /\ ~(t1.expiresAt < now) /\ ~(t2.expiresAt < now)

\* C21: no two Users share an email; the upsert of a login whose email already has
\* a User keeps that user's id, role and email and every other user as it is; and a
\* login that answers 200 leaves exactly one User with its email.
C21_LoginMergesByEmail ==
    /\ [](\A u, v \in users : (u.email = v.email \/ u.id = v.id) => u = v)
    /\ [][\A p \in Procs :
            /\ (LoginUpsert(p) /\ UserByEmail(req[p].email) # {}) =>
                  /\ Cardinality(users') = Cardinality(users)
                  /\ \A u \in users :
                        IF u.email = req[p].email
                        THEN \E v \in users' :
                               v.id = u.id /\ v.role = u.role /\ v.email = u.email
                        ELSE u \in users'
            /\ (LoginIssue(p) /\ req'[p].status = 200) =>
                  Cardinality({u \in users' : u.email = req[p].email}) = 1]_vars

\* a second login of a user whose role had been changed: the role stays changed
C21_Witness ==
    /\ \E q \in Procs : pc[q] = "done" /\ req[q].op = "login" /\ req[q].status = 200
    /\ \E at \in accessTokens : at.sub = 1 /\ at.role = "USER"
    /\ users = {[id |-> 1, email |-> "a@x", googleId |-> "g2", role |-> "USER"]}
    /\ createdRoles = <<"SUPER_ADMIN">>

\* C22: a call of a users route with an access token this server signed and whose
\* expiry has not passed is never answered 401, and is answered 403 exactly when
\* the role in the token is not SUPER_ADMIN, whatever happened to the user or to
\* its refresh tokens since the token was signed.
C22_AccessNotRevocable ==
    [][\A p \in Procs :
          (/\ Accepts(p) /\ served' = served + 1
           /\ req'[p].op \in {"delete", "patch"}
           /\ req'[p].at \in accessTokens /\ now < req'[p].at.exp) =>
              /\ ~(pc'[p] = "done" /\ req'[p].status = 401)
              /\ (pc'[p] = "done" /\ req'[p].status = 403)
                    <=> req'[p].at.role # "SUPER_ADMIN"]_vars

\* a user demoted to USER deletes another user with the SUPER_ADMIN token signed before
C22_Witness ==
    \E p \in Procs :
        /\ pc[p] = "done" /\ req[p].op = "delete" /\ req[p].status = 204
        /\ req[p].at.role = "SUPER_ADMIN"
        /\ req[p].userId # req[p].at.sub
        /\ \E u \in UserById(req[p].at.sub) : u.role = "USER"

\* the secret of request p was refreshed before, was not deleted by a login, and
\* no record of it is revoked or at its expiry
C23_StillInForce(p) ==
    /\ req[p].secret \in refreshedOK
    /\ req[p].secret \notin loginDeleted
    /\ \A t \in Matching(Hash(req[p].secret)) :
          t.revokedAt = None /\ ~(t.expiresAt <= now)

\* C23: in the static variant a refresh that answers 200 changes no RefreshToken
\* record and returns the presented token, and a refresh with a token that was
\* refreshed before answers 200 unless a logout revoked it, a login of its user
\* deleted it, or its expiry passed.
C23_StaticTokenKeepsValidating ==
    [][\A p \in Procs :
          (variant = "static" /\ pc'[p] = "done"
              /\ (RefreshLookup(p) \/ RefreshUser(p))) =>
              /\ req'[p].status = 200 =>
                    (tokens' = tokens /\ req'[p].refreshOut = req[p].secret)
              /\ C23_StillInForce(p) => req'[p].status = 200]_vars

\* C23 as amended: the same, unless also the user of the token was deleted.
C23_StaticTokenWhileUserExists ==
    [][\A p \in Procs :
          (variant = "static" /\ pc'[p] = "done"
              /\ (RefreshLookup(p) \/ RefreshUser(p))) =>
              /\ req'[p].status = 200 =>
                    (tokens' = tokens /\ req'[p].refreshOut = req[p].secret)
              /\ (C23_StillInForce(p) /\ ~OwnerGone(p)) => req'[p].status = 200]_vars

\* the second successful refresh with one token
C23_Witness ==
    \E p \in Procs :
        /\ variant = "static"
        /\ pc[p] = "done" /\ req[p].op = "refresh" /\ req[p].status = 200
        /\ req[p].refreshOut = req[p].secret
        /\ Cardinality({at \in accessTokens : at.sub = owners[req[p].secret]}) >= 3

\* C24: in the static variant, when no login is in flight, a user has at most one
\* RefreshToken record, and no secret issued to that user before the record's
\* secret has a record left.
C24_SingleSession ==
    (/\ variant = "static"
     /\ \A p \in Procs : pc[p] \notin {"login_count", "login_upsert",
                                        "login_delmany", "login_issue"}) =>
        \A u \in users :
            /\ Cardinality({t \in tokens : t.userId = u.id}) <= 1
            /\ \A t \in tokens :
                  t.userId = u.id =>
                      \A s \in 1 .. issued :
                          (owners[s] = u.id /\ s < t.id) => Matching(Hash(s)) = {}

\* the record with this id descends from the login record root by rotations
RECURSIVE InLineage(_, _)
InLineage(root, id) ==
    \/ id = root
    \/ \E r \in rotations : r[2] = id /\ r[1] < id /\ InLineage(root, r[1])

\* C25: in the rotating variant, among the record a login created and the records
\* created by rotating it or its descendants, at most one is neither revoked nor
\* past its expiry.
C25_OneLivePerLineage ==
    variant = "rotating" =>
        \A root \in loginIssued :
            Cardinality({t \in tokens :
                            /\ InLineage(root, t.id)
                            /\ t.revokedAt = None
                            /\ ~(t.expiresAt < now)}) <= 1

\* C26: a record has replacedByToken only if it is revoked, the value is the
\* hashedToken of an existing record of the same user, and every existing record a
\* rotation created is the replacedByToken of exactly one revoked record.
C26_ChainIntegrity ==
    /\ \A t \in tokens :
          t.replacedByToken # None =>
              /\ t.revokedAt # None
              /\ \E n \in tokens :
                    n.userId = t.userId /\ t.replacedByToken = Some(n.hashedToken)
    /\ \A r \in rotations :
          (\E n \in tokens : n.id = r[2]) =>
              Cardinality({o \in tokens :
                              /\ o.revokedAt # None
                              /\ o.replacedByToken = Some(Hash(r[2]))}) = 1

\* C27: when no create-invoice request is in flight, the number generateInvoiceNumber
\* computes for a country today is not the number of a stored invoice of that
\* country, so the next create on its own does not answer 409.
C27_SequentialCreateNeverConflicts ==
    (\A p \in Procs : ipc[p] \in {"idle", "done"}) =>
        \A c \in Countries :
            ~\E i \in invoices :
                i.country = c /\ i.invoiceNumber = generateInvoiceNumber(c, today)

\* C28: two requests of the same day for different country values hold different
\* invoice numbers.
C28_PartitionsNeverCollide ==
    \A p, q \in Procs :
        (/\ ireq[p].invoiceNumber # <<>> /\ ireq[q].invoiceNumber # <<>>
         /\ ireq[p].country # ireq[q].country
         /\ ireq[p].date = ireq[q].date) =>
            ireq[p].invoiceNumber # ireq[q].invoiceNumber

\* C29: a logout with token T sets revokedAt on the non-revoked records whose
\* hashedToken is the hash of T and leaves every other record and every User as it is.
C29_LogoutRevokesOnlyPresented ==
    [][\A p \in Procs :
          (/\ Accepts(p) /\ served' = served + 1
           /\ req'[p].op = "logout" /\ req'[p].secret # MissingSecret) =>
              /\ users' = users
              /\ Cardinality(tokens') = Cardinality(tokens)
              /\ \A t \in tokens :
                    IF t.hashedToken = Hash(req'[p].secret) /\ t.revokedAt = None
                    THEN [t EXCEPT !.revokedAt = Some(now)] \in tokens'
                    ELSE t \in tokens']_vars

\* after the logout of one session, another session of the same user is still live
C29_Witness ==
    \E p \in Procs :
        /\ pc[p] = "done" /\ req[p].op = "logout" /\ req[p].cls = "live"
        /\ \E t, o \in tokens :
              /\ t.hashedToken = Hash(req[p].secret) /\ t.revokedAt # None
              /\ o.userId = t.userId /\ o.id # t.id /\ o.revokedAt = None

\* C30: no two stored inspections share an inspectionId; a request does at most 10
\* lookups; a request whose id is generated answers 500 exactly when 10 lookups all
\* found their candidate, and otherwise goes on to create with a candidate its
\* lookup did not find; a create whose id is stored by then answers 400 and
\* stores nothing.
C30_InspectionIdAllocation ==
    /\ [](\A i, j \in inspections : i.inspectionId = j.inspectionId => i = j)
    /\ [](\A p \in Procs :
            /\ xreq[p].lookups <= maxAttempts
            /\ (xreq[p].provided = NoInspectionId /\ xpc[p] = "done") =>
                  (xreq[p].status = 500 <=> xreq[p].attempts = maxAttempts))
    /\ [][\A p \in Procs :
            /\ (xpc[p] = "generate" /\ xpc'[p] = "create") =>
                  ExistingInspection(xreq'[p].inspectionId) = {}
            /\ (xpc[p] = "create" /\ xpc'[p] # "create") =>
                  IF ExistingInspection(xreq[p].inspectionId) # {}
                  THEN /\ xpc'[p] = "done" /\ xreq'[p].status = 400
                       /\ inspections' = inspections
                  ELSE xpc'[p] = "done" /\ xreq'[p].status = 201]_vars

====
